---- MODULE Spec2Model ----
(***************************************************************************)
(* Model of the AMDP debug session manager, pkg/adt/amdp_session.go.       *)
(*                                                                         *)
(* One AMDPSessionManager is modelled.  Its goroutines are:                *)
(*   - invocations of Start       (identified by i \in Starts),            *)
(*   - invocations of Stop        (t \in Stops),                           *)
(*   - invocations of SendCommand (c \in Calls),                           *)
(*   - the processCommands worker spawned by Start invocation i.           *)
(* A Start invocation that passes the running check owns session i: its    *)
(* command channel, its session context and its worker carry the same      *)
(* index.  Strings issued by the remote system are modelled as naturals    *)
(* with 0 standing for the empty string.                                   *)
(*                                                                         *)
(* Every critical section of m.mu that contains no blocking operation is   *)
(* one atomic action guarded by mu = 0.  cleanup holds the write lock      *)
(* across the hard-stop request, so it is two actions and mu names the     *)
(* worker that holds the lock in between.                                  *)
(*                                                                         *)
(* Spec starts from a new manager.  FullSpec starts from a Start in its    *)
(* session creation with a nearly full command channel, for the behaviour  *)
(* at the capacity of the channel.  HelpSpec applies GetAbapHelp of         *)
(* pkg/adt (a pure function) to every keyword of a bounded set.            *)
(***************************************************************************)
EXTENDS Integers, Sequences, FiniteSets, TLC

\* ---- bound of the model ----
\* The number of events of the environment in one behaviour: invocations of
\* Start, Stop and SendCommand, external cancellations and keepalive ticks.
MaxOps == 3

\* ---- program constants ----
ChanCap == 10
RespCap == 1

Starts == 1..MaxOps
Calls == 1..MaxOps
Stops == 1..MaxOps

\* AMDPCommandType, amdp_session.go:25-40
AMDPCmdStart == 0
AMDPCmdStop == 1
AMDPCmdStep == 2
AMDPCmdGetStatus == 3
AMDPCmdGetVariables == 4
AMDPCmdSetBreakpoint == 5
AMDPCmdGetBreakpoints == 6

\* AMDPCommandType is an int: a caller may pass a value that is none of the
\* declared constants.
OutOfRangeType == 7

\* The command types the callers of the model send.
CmdTypes == {AMDPCmdStart, AMDPCmdStop, AMDPCmdStep, OutOfRangeType}

\* The zero value of AMDPSessionState.
EmptyState ==
    [SessionID |-> 0, MainID |-> 0, ObjectURI |-> 0, Status |-> "",
     CurrentLine |-> 0, CurrentProc |-> 0]

\* The object URI passed by Start invocation i (never the empty string).
ObjectURIOf(i) == i

NoCmd == [Type |-> -1, Response |-> 0]

\* AMDPResponse; Cmd and Type record the command the response was computed for.
Resp(kind, success, err, cmd, type) ==
    [Kind |-> kind, Success |-> success, Error |-> err, Cmd |-> cmd, Type |-> type]

NoResp == Resp("none", FALSE, "", 0, -1)

\* ------------------------------------------------------------ GetAbapHelp

\* A keyword is a sequence of characters; MaxLen bounds its length.
MaxLen == 4

\* The characters of the keywords: a space, a lower-case and an upper-case
\* letter.
Chars == {" ", "a", "B"}

\* unicode.IsSpace, on Chars.
Space == {" "}

Keywords == UNION {[1..n -> Chars] : n \in 0..MaxLen}

\* unicode.ToUpper and unicode.ToLower, on Chars.
UpperOf(ch) == CASE ch = "a" -> "A" [] ch = "b" -> "B" [] OTHER -> ch

LowerOf(ch) == CASE ch = "A" -> "a" [] ch = "B" -> "b" [] OTHER -> ch

\* strings.ToUpper, strings.ToLower
ToUpper(s) == [k \in 1..Len(s) |-> UpperOf(s[k])]

ToLower(s) == [k \in 1..Len(s) |-> LowerOf(s[k])]

\* The positions of s that hold no white space.
NonSpace(s) == {k \in 1..Len(s) : s[k] \notin Space}

\* Faulty variant of TrimSpace: the trailing white space stays.
TrimSpace_LeadingOnly(s) ==
    IF NonSpace(s) = {} THEN <<>>
    ELSE SubSeq(s, CHOOSE i \in NonSpace(s) : \A k \in NonSpace(s) : i <= k, Len(s))

\* strings.TrimSpace: s without its leading and trailing white space.
TrimSpace(s) ==
    IF NonSpace(s) = {} THEN <<>>
    ELSE SubSeq(s, CHOOSE i \in NonSpace(s) : \A k \in NonSpace(s) : i <= k,
                   CHOOSE j \in NonSpace(s) : \A k \in NonSpace(s) : k <= j)

\* GetAbapHelpURL, namespace_unit_test.go:426-434; the fixed parts of the URL
\* are one element each.
GetAbapHelpURL(kw) ==
    LET k == ToLower(TrimSpace(kw))
    IN  IF k = <<>> THEN <<>>
        ELSE <<"https://help.sap.com/doc/abapdocu_latest_index_htm/latest/en-US/abap">>
                \o k \o <<".htm">>

\* FormatAbapHelpQuery, namespace_unit_test.go:437-443
FormatAbapHelpQuery(kw) ==
    LET k == ToUpper(TrimSpace(kw))
    IN  IF k = <<>> THEN <<>>
        ELSE <<"SAP ABAP ">> \o k
                \o <<" statement syntax documentation site:help.sap.com">>

\* A nil *AbapHelpResult.
NilResult ==
    [nil |-> TRUE, Keyword |-> <<>>, URL |-> <<>>, SearchQuery |-> <<>>,
     Documentation |-> <<>>]

\* Client.GetAbapHelp, namespace_unit_test.go:448-470: the result and the error.
GetAbapHelp(kw) ==
    LET k == TrimSpace(kw)
    IN  IF k = <<>>
        THEN [called |-> TRUE, err |-> "keyword is required", result |-> NilResult]
        ELSE [called |-> TRUE, err |-> "",
              result |-> [nil |-> FALSE, Keyword |-> ToUpper(k),
                          URL |-> GetAbapHelpURL(k),
                          SearchQuery |-> FormatAbapHelpQuery(k),
                          Documentation |-> <<>>]]

\* GetAbapHelp has not been called.
NoHelp == [called |-> FALSE, err |-> "", result |-> NilResult]

VARIABLES
    mu,          \* 0: m.mu free; s: held for writing by the cleanup of worker s
    running,     \* m.running
    state,       \* m.state
    cmdChannel,  \* m.cmdChannel: 0 is nil, s the channel made by Start s
    csrfToken,   \* m.csrfToken: "", "unsafe" or "token" (a valid token)
    cancel,      \* m.cancel: 0 is nil, s cancels the context of session s
    chanBuf,     \* chanBuf[s]: the buffered commands of channel s
    chanClosed,  \* chanClosed[s]: channel s has been closed
    ctxDone,     \* ctxDone[s]: the session context of Start s is cancelled
    spc,         \* spc[i]: position of Start invocation i
    sres,        \* sres[i]: what Start invocation i returned
    tpc,         \* tpc[t]: position of Stop invocation t
    cpc,         \* cpc[c]: position of SendCommand invocation c
    ctype,       \* ctype[c]: the command type of invocation c
    cchan,       \* cchan[c]: the channel captured at amdp_session.go:178
    cres,        \* cres[c]: what SendCommand invocation c returned
    slot,        \* slot[c]: respChan of invocation c (capacity 1)
    wpc,         \* wpc[s]: position of the worker of session s
    wcmd,        \* wcmd[s]: the command the worker is dispatching
    ops,         \* the events of the environment so far
    remote,      \* requests sent to the remote system, by kind
    hist,        \* per session: what has happened (history)
    keyword,     \* the keyword GetAbapHelp is called with
    help         \* what GetAbapHelp has returned

mgr == <<mu, running, state, cmdChannel, csrfToken, cancel>>
chans == <<chanBuf, chanClosed>>
starters == <<spc, sres>>
callers == <<cpc, ctype, cchan, cres>>
workers == <<wpc, wcmd>>
vars == <<mu, running, state, cmdChannel, csrfToken, cancel, chanBuf, chanClosed,
          ctxDone, spc, sres, tpc, cpc, ctype, cchan, cres, slot, wpc, wcmd,
          ops, remote, hist, keyword, help>>
helps == <<keyword, help>>

RemoteKinds == {"fetch", "start", "cmd", "keepalive", "hardstop"}

\* What the remote system reports of the debuggee in the result of a step or
\* status request: running on, or stopped at a breakpoint in a line of a
\* procedure.
NoReport == [status |-> "", line |-> 0, proc |-> 0]

RemoteReports ==
    {[status |-> "running", line |-> 0, proc |-> 0],
     [status |-> "breakpoint", line |-> 1, proc |-> 1]}

EmptyHist ==
    [enq |-> <<>>, disp |-> <<>>, spawned |-> 0, cleanups |-> 0,
     hardStops |-> 0, closes |-> 0, startCalls |-> 0, issued |-> 0,
     out |-> <<>>, faults |-> 0, reported |-> NoReport]

\* NewAMDPSessionManager, amdp_session.go:80-99
NewAMDPSessionManager ==
    /\ mu = 0
    /\ running = FALSE
    /\ state = EmptyState
    /\ cmdChannel = 0
    /\ csrfToken = ""
    /\ cancel = 0
    /\ chanBuf = [s \in Starts |-> <<>>]
    /\ chanClosed = [s \in Starts |-> FALSE]
    /\ ctxDone = [s \in Starts |-> FALSE]
    /\ spc = [i \in Starts |-> "idle"]
    /\ sres = [i \in Starts |-> "none"]
    /\ tpc = [t \in Stops |-> "idle"]
    /\ cpc = [c \in Calls |-> "idle"]
    /\ ctype = [c \in Calls |-> -1]
    /\ cchan = [c \in Calls |-> 0]
    /\ cres = [c \in Calls |-> NoResp]
    /\ slot = [c \in Calls |-> <<>>]
    /\ wpc = [s \in Starts |-> "none"]
    /\ wcmd = [s \in Starts |-> NoCmd]
    /\ ops = 0
    /\ remote = [k \in RemoteKinds |-> 0]
    /\ hist = [s \in Starts |-> EmptyHist]

\* A new manager; GetAbapHelp has not been called.
Init ==
    /\ NewAMDPSessionManager
    /\ keyword = <<>>
    /\ help = NoHelp

\* IsRunning, amdp_session.go:102-106
IsRunning == running

\* State, amdp_session.go:109-113
State == state

\* Invocations are taken in the order of their index: the invocations of one
\* operation are interchangeable until they begin.
MayBegin(pc, i) == pc[i] = "idle" /\ (i > 1 => pc[i - 1] # "idle") /\ ops < MaxOps

Op == ops' = ops + 1

Sent(kind) == remote' = [remote EXCEPT ![kind] = @ + 1]

\* ---------------------------------------------------------------- Start

\* Faulty variant of StartLock: a channel left by an earlier Start is used again.
StartLock_KeepsChannel(i) ==
    /\ MayBegin(spc, i)
    /\ Op
    /\ UNCHANGED helps
    /\ mu = 0
    /\ IF running
       THEN /\ spc' = [spc EXCEPT ![i] = "done"]
            /\ sres' = [sres EXCEPT ![i] = "AlreadyRunning"]
            /\ UNCHANGED <<running, cmdChannel, state>>
       ELSE /\ running' = TRUE
            /\ cmdChannel' = IF cmdChannel # 0 THEN cmdChannel ELSE i
            /\ state' = [EmptyState EXCEPT !.ObjectURI = ObjectURIOf(i),
                                           !.Status = "starting"]
            /\ spc' = [spc EXCEPT ![i] = "ctx"]
            /\ UNCHANGED sres
    /\ UNCHANGED <<mu, csrfToken, cancel, chans, ctxDone, tpc, callers, slot,
                   workers, remote, hist>>

\* Faulty variant of StartLock: the running check is missing.
StartLock_NoCheck(i) ==
    /\ MayBegin(spc, i)
    /\ Op
    /\ UNCHANGED helps
    /\ mu = 0
    /\ running' = TRUE
    /\ cmdChannel' = i
    /\ state' = [EmptyState EXCEPT !.ObjectURI = ObjectURIOf(i),
                                   !.Status = "starting"]
    /\ spc' = [spc EXCEPT ![i] = "ctx"]
    /\ UNCHANGED <<mu, csrfToken, cancel, chans, ctxDone, sres, tpc, callers, slot,
                   workers, remote, hist>>

\* Faulty variant of StartLock: the queue and the state are set up before the running
\* check rather than after it.
StartLock_MarkFirst(i) ==
    /\ MayBegin(spc, i)
    /\ Op
    /\ UNCHANGED helps
    /\ mu = 0
    /\ cmdChannel' = i
    /\ state' = [EmptyState EXCEPT !.ObjectURI = ObjectURIOf(i),
                                   !.Status = "starting"]
    /\ running' = TRUE
    /\ IF running
       THEN /\ spc' = [spc EXCEPT ![i] = "done"]
            /\ sres' = [sres EXCEPT ![i] = "AlreadyRunning"]
       ELSE /\ spc' = [spc EXCEPT ![i] = "ctx"]
            /\ UNCHANGED sres
    /\ UNCHANGED <<mu, csrfToken, cancel, chans, ctxDone, tpc, callers, slot,
                   workers, remote, hist>>

\* Start, the locked section: the running check and the marking.
StartLock(i) ==
    /\ MayBegin(spc, i)
    /\ Op
    /\ UNCHANGED helps
    /\ mu = 0
    /\ IF running
       THEN /\ spc' = [spc EXCEPT ![i] = "done"]
            /\ sres' = [sres EXCEPT ![i] = "AlreadyRunning"]
            /\ UNCHANGED <<running, cmdChannel, state>>
       ELSE /\ running' = TRUE
            /\ cmdChannel' = i
            /\ state' = [EmptyState EXCEPT !.ObjectURI = ObjectURIOf(i),
                                           !.Status = "starting"]
            /\ spc' = [spc EXCEPT ![i] = "ctx"]
            /\ UNCHANGED sres
    /\ UNCHANGED <<mu, csrfToken, cancel, chans, ctxDone, tpc, callers, slot,
                   workers, remote, hist>>

\* Faulty variant of StartCtx: the worker is spawned as soon as the context exists,
\* before the token fetch and the session creation.
StartCtx_SpawnsWorker(i) ==
    /\ UNCHANGED ops
    /\ UNCHANGED helps
    /\ spc[i] = "ctx"
    /\ cancel' = i
    /\ spc' = [spc EXCEPT ![i] = "fetch"]
    /\ wpc' = [wpc EXCEPT ![i] = "loop"]
    /\ hist' = [hist EXCEPT ![i].spawned = @ + 1]
    /\ UNCHANGED <<mu, running, state, cmdChannel, csrfToken, chans, ctxDone, sres,
                   tpc, callers, slot, wcmd, remote>>

\* Start: sessionCtx, cancel := context.WithCancel(ctx); m.cancel = cancel
StartCtx(i) ==
    /\ UNCHANGED ops
    /\ UNCHANGED helps
    /\ spc[i] = "ctx"
    /\ cancel' = i
    /\ spc' = [spc EXCEPT ![i] = "fetch"]
    /\ UNCHANGED <<mu, running, state, cmdChannel, csrfToken, chans, ctxDone, sres,
                   tpc, callers, slot, workers, remote, hist>>

\* What the HEAD request of fetchCSRFToken can yield: a transport error, or a
\* response whose X-CSRF-Token header is "unsafe" (an absent header, "", takes
\* the same branch) or a token.  With the context already cancelled the request
\* is not sent and Do returns an error.
FetchOutcomes(i) ==
    IF ctxDone[i] THEN {"error"} ELSE {"error", "unsafe", "token"}

\* fetchCSRFToken: the error it returns (TRUE) for an outcome.
fetchCSRFTokenFails(o) == o = "error" \/ o = "" \/ o = "unsafe"

\* Faulty variant of StartFetch: the failure path does not unwind the running flag.
StartFetch_NoUnwind(i) ==
    /\ UNCHANGED ops
    /\ UNCHANGED helps
    /\ spc[i] = "fetch"
    /\ mu = 0
    /\ \E o \in FetchOutcomes(i) :
         /\ IF ctxDone[i] THEN UNCHANGED remote ELSE Sent("fetch")
         /\ csrfToken' = IF o = "error" THEN csrfToken ELSE o
         /\ IF fetchCSRFTokenFails(o)
            THEN /\ spc' = [spc EXCEPT ![i] = "done"]
                 /\ sres' = [sres EXCEPT ![i] = "AuthFailure"]
            ELSE /\ spc' = [spc EXCEPT ![i] = "init"]
                 /\ UNCHANGED sres
    /\ UNCHANGED <<mu, running, state, cmdChannel, cancel, chans, ctxDone, tpc,
                   callers, slot, workers, hist>>

\* Start: the token fetch and, on its failure, the unwinding.
StartFetch(i) ==
    /\ UNCHANGED ops
    /\ UNCHANGED helps
    /\ spc[i] = "fetch"
    /\ mu = 0
    /\ \E o \in FetchOutcomes(i) :
         /\ IF ctxDone[i] THEN UNCHANGED remote ELSE Sent("fetch")
         /\ csrfToken' = IF o = "error" THEN csrfToken ELSE o
         /\ IF fetchCSRFTokenFails(o)
            THEN /\ running' = FALSE
                 /\ spc' = [spc EXCEPT ![i] = "done"]
                 /\ sres' = [sres EXCEPT ![i] = "AuthFailure"]
            ELSE /\ spc' = [spc EXCEPT ![i] = "init"]
                 /\ UNCHANGED <<running, sres>>
    /\ UNCHANGED <<mu, state, cmdChannel, cancel, chans, ctxDone, tpc, callers,
                   slot, workers, hist>>

\* What the POST of initiateSession can yield: an error (transport, status or
\* parse), or a parsed response.  The parsed mainId is the id the remote system
\* issued, or empty when the response carries no mainId element.
InitOutcomes(i) ==
    IF ctxDone[i]
    THEN {[ok |-> FALSE, mainId |-> 0]}
    ELSE {[ok |-> FALSE, mainId |-> 0], [ok |-> TRUE, mainId |-> 0],
          [ok |-> TRUE, mainId |-> i]}

\* Faulty variant of StartInit: the main id of the session creation is not stored.
StartInit_DropsMainID(i) ==
    /\ UNCHANGED ops
    /\ UNCHANGED helps
    /\ spc[i] = "init"
    /\ mu = 0
    /\ \E o \in InitOutcomes(i) :
         /\ IF ctxDone[i] THEN UNCHANGED remote ELSE Sent("start")
         /\ hist' = [hist EXCEPT ![i].startCalls = @ + 1,
                                 ![i].spawned = IF o.ok THEN @ + 1 ELSE @,
                                 ![i].issued = IF o.ok THEN o.mainId ELSE @]
         /\ IF ~o.ok
            THEN /\ running' = FALSE
                 /\ sres' = [sres EXCEPT ![i] = "RemoteOperationFailure"]
                 /\ UNCHANGED <<state, wpc>>
            ELSE /\ state' = [state EXCEPT !.SessionID = i, !.Status = "running"]
                 /\ wpc' = [wpc EXCEPT ![i] = "loop"]
                 /\ sres' = [sres EXCEPT ![i] = "ok"]
                 /\ UNCHANGED running
         /\ spc' = [spc EXCEPT ![i] = "done"]
    /\ UNCHANGED <<mu, cmdChannel, csrfToken, cancel, chans, ctxDone, tpc, callers,
                   slot, wcmd>>

\* Faulty variant of StartInit: the worker is spawned before the result of the session
\* creation is looked at.
StartInit_SpawnFirst(i) ==
    /\ UNCHANGED ops
    /\ UNCHANGED helps
    /\ spc[i] = "init"
    /\ mu = 0
    /\ \E o \in InitOutcomes(i) :
         /\ IF ctxDone[i] THEN UNCHANGED remote ELSE Sent("start")
         /\ hist' = [hist EXCEPT ![i].startCalls = @ + 1, ![i].spawned = @ + 1]
         /\ wpc' = [wpc EXCEPT ![i] = "loop"]
         /\ IF ~o.ok
            THEN /\ running' = FALSE
                 /\ sres' = [sres EXCEPT ![i] = "RemoteOperationFailure"]
                 /\ UNCHANGED state
            ELSE /\ state' = [state EXCEPT !.SessionID = i, !.MainID = o.mainId,
                                           !.Status = "running"]
                 /\ sres' = [sres EXCEPT ![i] = "ok"]
                 /\ UNCHANGED running
         /\ spc' = [spc EXCEPT ![i] = "done"]
    /\ UNCHANGED <<mu, cmdChannel, csrfToken, cancel, chans, ctxDone, tpc, callers,
                   slot, wcmd>>

\* Start: the session creation, then the unwinding or the spawning of the worker.
StartInit(i) ==
    /\ UNCHANGED ops
    /\ UNCHANGED helps
    /\ spc[i] = "init"
    /\ mu = 0
    /\ \E o \in InitOutcomes(i) :
         /\ IF ctxDone[i] THEN UNCHANGED remote ELSE Sent("start")
         /\ hist' = [hist EXCEPT ![i].startCalls = @ + 1,
                                 ![i].spawned = IF o.ok THEN @ + 1 ELSE @,
                                 ![i].issued = IF o.ok THEN o.mainId ELSE @]
         /\ IF ~o.ok
            THEN /\ running' = FALSE
                 /\ sres' = [sres EXCEPT ![i] = "RemoteOperationFailure"]
                 /\ UNCHANGED <<state, wpc>>
            ELSE /\ state' = [state EXCEPT !.SessionID = i, !.MainID = o.mainId,
                                           !.Status = "running"]
                 /\ wpc' = [wpc EXCEPT ![i] = "loop"]
                 /\ sres' = [sres EXCEPT ![i] = "ok"]
                 /\ UNCHANGED running
         /\ spc' = [spc EXCEPT ![i] = "done"]
    /\ UNCHANGED <<mu, cmdChannel, csrfToken, cancel, chans, ctxDone, tpc, callers,
                   slot, wcmd>>

\* --------------------------------------------------------- cancellation

\* Stop, the read-locked running check.
StopCheck(t) ==
    /\ MayBegin(tpc, t)
    /\ Op
    /\ UNCHANGED helps
    /\ mu = 0
    /\ tpc' = [tpc EXCEPT ![t] = IF running THEN "cancel" ELSE "done"]
    /\ UNCHANGED <<mgr, chans, ctxDone, starters, callers, slot, workers, remote,
                   hist>>

\* Faulty variant of StopCancel: Stop clears the running flag itself.
StopCancel_ClearsRunning(t) ==
    /\ UNCHANGED ops
    /\ UNCHANGED helps
    /\ tpc[t] = "cancel"
    /\ ctxDone' = IF cancel # 0 THEN [ctxDone EXCEPT ![cancel] = TRUE] ELSE ctxDone
    /\ running' = FALSE
    /\ tpc' = [tpc EXCEPT ![t] = "done"]
    /\ UNCHANGED <<mu, state, cmdChannel, csrfToken, cancel, chans, starters,
                   callers, slot, workers, remote, hist>>

\* Stop: if m.cancel != nil { m.cancel() }, read without the lock.
StopCancel(t) ==
    /\ UNCHANGED ops
    /\ UNCHANGED helps
    /\ tpc[t] = "cancel"
    /\ ctxDone' = IF cancel # 0 THEN [ctxDone EXCEPT ![cancel] = TRUE] ELSE ctxDone
    /\ tpc' = [tpc EXCEPT ![t] = "done"]
    /\ UNCHANGED <<mgr, chans, starters, callers, slot, workers, remote, hist>>

\* Session s has begun and has not ended.
Live(s) == spc[s] \in {"ctx", "fetch", "init"} \/ wpc[s] \notin {"none", "done"}

\* The caller of Start cancels the context it passed (external cancellation).
CtxCancel(s) ==
    /\ Live(s)
    /\ ~ctxDone[s]
    /\ ops < MaxOps
    /\ Op
    /\ UNCHANGED helps
    /\ ctxDone' = [ctxDone EXCEPT ![s] = TRUE]
    /\ UNCHANGED <<mgr, chans, starters, tpc, callers, slot, workers, remote, hist>>

\* ----------------------------------------------------------- SendCommand

\* What SendCommand returns when it returns an error of its own.
ErrResult(err) == Resp("error", FALSE, err, 0, -1)

\* Faulty variant of SendCheck: the running check is missing.
SendCheck_NoCheck(c) ==
    /\ MayBegin(cpc, c)
    /\ Op
    /\ UNCHANGED helps
    /\ mu = 0
    /\ \E ty \in CmdTypes : ctype' = [ctype EXCEPT ![c] = ty]
    /\ cpc' = [cpc EXCEPT ![c] = "enq"]
    /\ cchan' = [cchan EXCEPT ![c] = cmdChannel]
    /\ UNCHANGED <<mgr, chans, ctxDone, starters, tpc, cres, slot, workers, remote,
                   hist>>

\* SendCommand, the read-locked section: the running check and the capture of
\* the command channel.
SendCheck(c) ==
    /\ MayBegin(cpc, c)
    /\ Op
    /\ UNCHANGED helps
    /\ mu = 0
    /\ \E ty \in CmdTypes : ctype' = [ctype EXCEPT ![c] = ty]
    /\ IF ~running
       THEN /\ cpc' = [cpc EXCEPT ![c] = "done"]
            /\ cres' = [cres EXCEPT ![c] = ErrResult("NotRunning")]
            /\ UNCHANGED cchan
       ELSE /\ cpc' = [cpc EXCEPT ![c] = "enq"]
            /\ cchan' = [cchan EXCEPT ![c] = cmdChannel]
            /\ UNCHANGED cres
    /\ UNCHANGED <<mgr, chans, ctxDone, starters, tpc, slot, workers, remote, hist>>

\* Faulty variant of SendEnqueue: the channel takes a command whatever it holds.
SendEnqueue_Unbounded(c) ==
    /\ UNCHANGED ops
    /\ UNCHANGED helps
    /\ cpc[c] = "enq"
    /\ LET ch == cchan[c]
           cmd == [Type |-> ctype[c], Response |-> c]
       IN  IF ch # 0 /\ chanClosed[ch]
           THEN /\ cpc' = [cpc EXCEPT ![c] = "done"]
                /\ cres' = [cres EXCEPT ![c] = ErrResult("panic")]
                /\ UNCHANGED <<chanBuf, hist>>
           ELSE IF ch # 0
           THEN /\ chanBuf' = [chanBuf EXCEPT ![ch] = Append(@, cmd)]
                /\ hist' = [hist EXCEPT ![ch].enq = Append(@, c)]
                /\ cpc' = [cpc EXCEPT ![c] = "wait"]
                /\ UNCHANGED cres
           ELSE /\ cpc' = [cpc EXCEPT ![c] = "done"]
                /\ cres' = [cres EXCEPT ![c] = ErrResult("QueueTimeout")]
                /\ UNCHANGED <<chanBuf, hist>>
    /\ UNCHANGED <<mgr, chanClosed, ctxDone, starters, tpc, ctype, cchan, slot,
                   workers, remote>>

\* SendCommand, the first select: the send on the captured channel.  A send on
\* a closed channel panics in the caller's goroutine; a send on a full (or nil)
\* channel is not ready and the 5 s timer fires.
SendEnqueue(c) ==
    /\ UNCHANGED ops
    /\ UNCHANGED helps
    /\ cpc[c] = "enq"
    /\ LET ch == cchan[c]
           cmd == [Type |-> ctype[c], Response |-> c]
       IN  IF ch # 0 /\ chanClosed[ch]
           THEN /\ cpc' = [cpc EXCEPT ![c] = "done"]
                /\ cres' = [cres EXCEPT ![c] = ErrResult("panic")]
                /\ UNCHANGED <<chanBuf, hist>>
           ELSE IF ch # 0 /\ Len(chanBuf[ch]) < ChanCap
           THEN /\ chanBuf' = [chanBuf EXCEPT ![ch] = Append(@, cmd)]
                /\ hist' = [hist EXCEPT ![ch].enq = Append(@, c)]
                /\ cpc' = [cpc EXCEPT ![c] = "wait"]
                /\ UNCHANGED cres
           ELSE /\ cpc' = [cpc EXCEPT ![c] = "done"]
                /\ cres' = [cres EXCEPT ![c] = ErrResult("QueueTimeout")]
                /\ UNCHANGED <<chanBuf, hist>>
    /\ UNCHANGED <<mgr, chanClosed, ctxDone, starters, tpc, ctype, cchan, slot,
                   workers, remote>>

\* SendCommand, the second select: resp := <-respChan.
SendRecv(c) ==
    /\ UNCHANGED ops
    /\ UNCHANGED helps
    /\ cpc[c] = "wait"
    /\ slot[c] # <<>>
    /\ cres' = [cres EXCEPT ![c] = Head(slot[c])]
    /\ slot' = [slot EXCEPT ![c] = Tail(@)]
    /\ cpc' = [cpc EXCEPT ![c] = "done"]
    /\ UNCHANGED <<mgr, chans, ctxDone, starters, tpc, ctype, cchan, workers,
                   remote, hist>>

\* SendCommand, the second select: the 60 s timer fires before a response.
SendResponseTimeout(c) ==
    /\ UNCHANGED ops
    /\ UNCHANGED helps
    /\ cpc[c] = "wait"
    /\ slot[c] = <<>>
    /\ cres' = [cres EXCEPT ![c] = ErrResult("ResponseTimeout")]
    /\ cpc' = [cpc EXCEPT ![c] = "done"]
    /\ UNCHANGED <<mgr, chans, ctxDone, starters, tpc, ctype, cchan, slot, workers,
                   remote, hist>>

\* -------------------------------------------------------------- cleanup

\* The requests outstanding at the remote system after one more of a kind is
\* sent, and after the request of a kind has returned.
Issued(out, kind) == Append(out, kind)

Returned(out, kind) == SelectSeq(out, LAMBDA k : k # kind)

\* Faulty variant of cleanupReset: the session state is left as it is.
cleanupReset_KeepsState(s, next) ==
    /\ running' = FALSE
    /\ state' = state
    /\ IF cmdChannel # 0
       THEN /\ chanClosed' = [chanClosed EXCEPT ![cmdChannel] = TRUE]
            /\ hist' = [hist EXCEPT ![s].cleanups = @ + 1,
                                    ![s].out = Returned(@, "hardstop"),
                                    ![cmdChannel].closes = @ + 1]
       ELSE /\ UNCHANGED chanClosed
            /\ hist' = [hist EXCEPT ![s].cleanups = @ + 1,
                                    ![s].out = Returned(@, "hardstop")]
    /\ cmdChannel' = 0
    /\ mu' = 0
    /\ wpc' = [wpc EXCEPT ![s] = next]

\* cleanup after hardStop: the reset, the close of the channel and the unlock;
\* next is where the worker goes on.
cleanupReset(s, next) ==
    /\ running' = FALSE
    /\ state' = EmptyState
    /\ IF cmdChannel # 0
       THEN /\ chanClosed' = [chanClosed EXCEPT ![cmdChannel] = TRUE]
            /\ hist' = [hist EXCEPT ![s].cleanups = @ + 1,
                                    ![s].out = Returned(@, "hardstop"),
                                    ![cmdChannel].closes = @ + 1]
       ELSE /\ UNCHANGED chanClosed
            /\ hist' = [hist EXCEPT ![s].cleanups = @ + 1,
                                    ![s].out = Returned(@, "hardstop")]
    /\ cmdChannel' = 0
    /\ mu' = 0
    /\ wpc' = [wpc EXCEPT ![s] = next]

\* cleanup as the deferred function of processCommands runs it: the goroutine
\* ends with it.
cleanupFinish(s) == cleanupReset(s, "done")

\* ------------------------------------------------------ processCommands

\* Faulty variant of SelectDone: the branch runs the release of cleanup itself before
\* it returns, and the deferred cleanup follows.
SelectDone_CleansUp(s) ==
    /\ UNCHANGED ops
    /\ UNCHANGED helps
    /\ wpc[s] = "loop"
    /\ ctxDone[s]
    /\ mu = 0
    /\ cleanupReset(s, "cleanup")
    /\ UNCHANGED <<csrfToken, cancel, chanBuf, ctxDone, starters, tpc, callers,
                   slot, wcmd, remote>>

\* processCommands, case <-ctx.Done(): return (the deferred cleanup follows).
SelectDone(s) ==
    /\ UNCHANGED ops
    /\ UNCHANGED helps
    /\ wpc[s] = "loop"
    /\ ctxDone[s]
    /\ wpc' = [wpc EXCEPT ![s] = "cleanup"]
    /\ UNCHANGED <<mgr, chans, ctxDone, starters, tpc, callers, slot, wcmd,
                   remote, hist>>

\* Faulty variant of SelectTick: the ping is sent by a task of its own and the loop
\* goes on at once.
SelectTick_Async(s) ==
    /\ wpc[s] = "loop"
    /\ ops < MaxOps
    /\ Op
    /\ UNCHANGED helps
    /\ mu = 0
    /\ IF state.MainID # 0 /\ ~ctxDone[s]
       THEN /\ Sent("keepalive")
            /\ hist' = [hist EXCEPT ![s].out = Issued(@, "keepalive")]
       ELSE UNCHANGED <<remote, hist>>
    /\ UNCHANGED <<mgr, chans, ctxDone, starters, tpc, callers, slot, workers>>

\* processCommands, case <-keepalive.C with sendKeepalive up to its request.
SelectTick(s) ==
    /\ wpc[s] = "loop"
    /\ ops < MaxOps
    /\ Op
    /\ UNCHANGED helps
    /\ mu = 0
    /\ IF state.MainID # 0 /\ ~ctxDone[s]
       THEN /\ Sent("keepalive")
            /\ hist' = [hist EXCEPT ![s].out = Issued(@, "keepalive")]
            /\ wpc' = [wpc EXCEPT ![s] = "keepalive"]
       ELSE UNCHANGED <<remote, wpc, hist>>
    /\ UNCHANGED <<mgr, chans, ctxDone, starters, tpc, callers, slot, wcmd>>

\* Faulty variant of KeepaliveReturn: the loop is left when the ping is over.
KeepaliveReturn_Exits(s) ==
    /\ UNCHANGED ops
    /\ UNCHANGED helps
    /\ wpc[s] = "keepalive"
    /\ wpc' = [wpc EXCEPT ![s] = "cleanup"]
    /\ hist' = [hist EXCEPT ![s].out = Returned(@, "keepalive")]
    /\ UNCHANGED <<mgr, chans, ctxDone, starters, tpc, callers, slot, wcmd,
                   remote>>

\* sendKeepalive: the GET returns (its result is ignored).
KeepaliveReturn(s) ==
    /\ UNCHANGED ops
    /\ UNCHANGED helps
    /\ wpc[s] = "keepalive"
    /\ wpc' = [wpc EXCEPT ![s] = "loop"]
    /\ hist' = [hist EXCEPT ![s].out = Returned(@, "keepalive")]
    /\ UNCHANGED <<mgr, chans, ctxDone, starters, tpc, callers, slot, wcmd,
                   remote>>

\* Faulty variant of RecvIndex: the newest command is taken first.
RecvIndex_Newest(buf) == Len(buf)

\* The position in the buffer of the command a receive takes: a Go channel
\* delivers in the order of the sends.
RecvIndex(buf) == 1

RemoveAt(q, k) == SubSeq(q, 1, k - 1) \o SubSeq(q, k + 1, Len(q))

\* processCommands, case cmd, ok := <-m.cmdChannel (the field is read anew at
\* every iteration; a receive on a nil channel is never ready).
SelectCmd(s) ==
    /\ UNCHANGED ops
    /\ UNCHANGED helps
    /\ wpc[s] = "loop"
    /\ cmdChannel # 0
    /\ LET ch == cmdChannel
           k == RecvIndex(chanBuf[ch])
       IN  IF chanBuf[ch] # <<>>
           THEN /\ wcmd' = [wcmd EXCEPT ![s] = chanBuf[ch][k]]
                /\ chanBuf' = [chanBuf EXCEPT ![ch] = RemoveAt(@, k)]
                /\ hist' = [hist EXCEPT ![ch].disp = Append(@, chanBuf[ch][k].Response)]
                /\ wpc' = [wpc EXCEPT ![s] = "dispatch"]
           ELSE /\ chanClosed[ch]
                /\ wpc' = [wpc EXCEPT ![s] = "cleanup"]
                /\ UNCHANGED <<wcmd, chanBuf, hist>>
    /\ UNCHANGED <<mgr, chanClosed, ctxDone, starters, tpc, callers, slot,
                   remote>>

\* The command types whose handler issues a request with the current mainID.
RemoteTypes ==
    {AMDPCmdStop, AMDPCmdStep, AMDPCmdGetStatus, AMDPCmdGetVariables,
     AMDPCmdSetBreakpoint, AMDPCmdGetBreakpoints}

\* Faulty variant of ReplySlot: one response channel shared by all commands.
ReplySlot_Shared(cmd) == 1

\* The reply slot the worker writes the response of cmd to.
ReplySlot(cmd) == cmd.Response

\* Faulty variant of Reply: the response is sent with a blocking send that the caller
\* must be there to receive.
Reply_Blocking(s, resp) ==
    /\ LET c == ReplySlot(wcmd[s])
       IN  /\ c \in Calls /\ cpc[c] = "wait"
           /\ slot' = [slot EXCEPT ![c] = Append(@, resp)]
    /\ wpc' = [wpc EXCEPT ![s] = IF wcmd[s].Type = AMDPCmdStop THEN "cleanup"
                                                                ELSE "loop"]
    /\ wcmd' = [wcmd EXCEPT ![s] = NoCmd]

\* Faulty variant of Reply: the loop is left after any failed command.
Reply_ErrorExits(s, resp) ==
    /\ LET c == ReplySlot(wcmd[s])
       IN  slot' = IF Len(slot[c]) < RespCap
                   THEN [slot EXCEPT ![c] = Append(@, resp)]
                   ELSE slot
    /\ wpc' = [wpc EXCEPT ![s] = IF wcmd[s].Type = AMDPCmdStop \/ ~resp.Success
                                 THEN "cleanup"
                                 ELSE "loop"]
    /\ wcmd' = [wcmd EXCEPT ![s] = NoCmd]

\* Faulty variant of Reply: the loop is left after a stop command only when the remote
\* stop has succeeded.
Reply_StopOnSuccess(s, resp) ==
    /\ LET c == ReplySlot(wcmd[s])
       IN  slot' = IF Len(slot[c]) < RespCap
                   THEN [slot EXCEPT ![c] = Append(@, resp)]
                   ELSE slot
    /\ wpc' = [wpc EXCEPT ![s] = IF wcmd[s].Type = AMDPCmdStop /\ resp.Success
                                 THEN "cleanup"
                                 ELSE "loop"]
    /\ wcmd' = [wcmd EXCEPT ![s] = NoCmd]

\* Faulty variant of Reply: the response is put in the slot twice.
Reply_Twice(s, resp) ==
    /\ LET c == ReplySlot(wcmd[s])
       IN  slot' = [slot EXCEPT ![c] = Append(Append(@, resp), resp)]
    /\ wpc' = [wpc EXCEPT ![s] = IF wcmd[s].Type = AMDPCmdStop THEN "cleanup"
                                                                ELSE "loop"]
    /\ wcmd' = [wcmd EXCEPT ![s] = NoCmd]

\* Faulty variant of Reply: the loop goes on after a stop command.
Reply_StopContinues(s, resp) ==
    /\ LET c == ReplySlot(wcmd[s])
       IN  slot' = IF Len(slot[c]) < RespCap
                   THEN [slot EXCEPT ![c] = Append(@, resp)]
                   ELSE slot
    /\ wpc' = [wpc EXCEPT ![s] = "loop"]
    /\ wcmd' = [wcmd EXCEPT ![s] = NoCmd]

\* Faulty variant of Reply: the response is dropped when the caller is no longer
\* waiting for it.
Reply_DropsWhenAbandoned(s, resp) ==
    /\ LET c == ReplySlot(wcmd[s])
       IN  slot' = IF c \in Calls /\ cpc[c] = "wait" /\ Len(slot[c]) < RespCap
                   THEN [slot EXCEPT ![c] = Append(@, resp)]
                   ELSE slot
    /\ wpc' = [wpc EXCEPT ![s] = IF wcmd[s].Type = AMDPCmdStop THEN "cleanup"
                                                                ELSE "loop"]
    /\ wcmd' = [wcmd EXCEPT ![s] = NoCmd]

\* processCommands: the non-blocking send of the response, then the exit of the
\* loop for a stop command.
Reply(s, resp) ==
    /\ LET c == ReplySlot(wcmd[s])
       IN  slot' = IF Len(slot[c]) < RespCap
                   THEN [slot EXCEPT ![c] = Append(@, resp)]
                   ELSE slot
    /\ wpc' = [wpc EXCEPT ![s] = IF wcmd[s].Type = AMDPCmdStop THEN "cleanup"
                                                                ELSE "loop"]
    /\ wcmd' = [wcmd EXCEPT ![s] = NoCmd]

\* How the request of a handler may end: with the response of the remote
\* system, with an error of it, with a fault, or, the request carrying the
\* context of the session, aborted when that context is cancelled.
RemoteOutcomes(s) ==
    {"ok", "error", "panic"} \cup (IF ctxDone[s] THEN {"canceled"} ELSE {})

\* What the response of the remote system may report, for an outcome of the
\* request of a command type.
ReportsOf(o, type) ==
    IF o = "ok" /\ type \in {AMDPCmdStep, AMDPCmdGetStatus}
    THEN RemoteReports
    ELSE {NoReport}

\* The error of the response for an outcome.
ErrorOf(o) ==
    CASE o = "ok" -> ""
      [] o = "canceled" -> "context canceled"
      [] OTHER -> "remote"

\* Faulty variant of Dispatch: the handlers do not look at mainID before they build
\* their request.
Dispatch_NoMainIDCheck(s) ==
    /\ UNCHANGED ops
    /\ UNCHANGED helps
    /\ wpc[s] = "dispatch"
    /\ mu = 0
    /\ LET cmd == wcmd[s]
       IN  IF cmd.Type \notin RemoteTypes
           THEN /\ Reply(s, Resp("reply", FALSE, "unknown command", cmd.Response, cmd.Type))
                /\ UNCHANGED <<remote, hist>>
           ELSE IF ctxDone[s]
           THEN /\ Reply(s, Resp("reply", FALSE, ErrorOf("canceled"), cmd.Response,
                              cmd.Type))
                /\ UNCHANGED <<remote, hist>>
           ELSE /\ Sent("cmd")
                /\ hist' = [hist EXCEPT ![s].out = Issued(@, "cmd")]
                /\ wpc' = [wpc EXCEPT ![s] = "inflight"]
                /\ UNCHANGED <<slot, wcmd>>
    /\ UNCHANGED <<mgr, chans, ctxDone, starters, tpc, callers>>

\* Faulty variant of Dispatch: a command of a type without a handler ends the session.
Dispatch_UnknownEndsSession(s) ==
    /\ UNCHANGED ops
    /\ UNCHANGED helps
    /\ wpc[s] = "dispatch"
    /\ mu = 0
    /\ LET cmd == wcmd[s]
       IN  IF cmd.Type \notin RemoteTypes
           THEN /\ slot' = [slot EXCEPT ![ReplySlot(cmd)] =
                               Append(@, Resp("reply", FALSE, "unknown command",
                                              cmd.Response, cmd.Type))]
                /\ wpc' = [wpc EXCEPT ![s] = "cleanup"]
                /\ wcmd' = [wcmd EXCEPT ![s] = NoCmd]
                /\ UNCHANGED <<remote, hist>>
           ELSE IF state.MainID = 0
           THEN /\ IF cmd.Type = AMDPCmdStop
                   THEN Reply(s, Resp("reply", TRUE, "", cmd.Response, cmd.Type))
                   ELSE Reply(s, Resp("reply", FALSE, "no active session",
                                      cmd.Response, cmd.Type))
                /\ UNCHANGED <<remote, hist>>
           ELSE IF ctxDone[s]
           THEN /\ Reply(s, Resp("reply", FALSE, ErrorOf("canceled"), cmd.Response,
                              cmd.Type))
                /\ UNCHANGED <<remote, hist>>
           ELSE /\ Sent("cmd")
                /\ hist' = [hist EXCEPT ![s].out = Issued(@, "cmd")]
                /\ wpc' = [wpc EXCEPT ![s] = "inflight"]
                /\ UNCHANGED <<slot, wcmd>>
    /\ UNCHANGED <<mgr, chans, ctxDone, starters, tpc, callers>>

\* handleCommand up to the request of the handler: the handlers that do not
\* reach the remote system (unknown type, empty mainID, cancelled context)
\* return at once and the response is sent.
Dispatch(s) ==
    /\ UNCHANGED ops
    /\ UNCHANGED helps
    /\ wpc[s] = "dispatch"
    /\ mu = 0
    /\ LET cmd == wcmd[s]
       IN  IF cmd.Type \notin RemoteTypes
           THEN /\ Reply(s, Resp("reply", FALSE, "unknown command", cmd.Response, cmd.Type))
                /\ UNCHANGED <<remote, hist>>
           ELSE IF state.MainID = 0
           THEN /\ IF cmd.Type = AMDPCmdStop
                   THEN Reply(s, Resp("reply", TRUE, "", cmd.Response, cmd.Type))
                   ELSE Reply(s, Resp("reply", FALSE, "no active session",
                                      cmd.Response, cmd.Type))
                /\ UNCHANGED <<remote, hist>>
           ELSE IF ctxDone[s]
           THEN /\ Reply(s, Resp("reply", FALSE, ErrorOf("canceled"), cmd.Response,
                              cmd.Type))
                /\ UNCHANGED <<remote, hist>>
           ELSE /\ Sent("cmd")
                /\ hist' = [hist EXCEPT ![s].out = Issued(@, "cmd")]
                /\ wpc' = [wpc EXCEPT ![s] = "inflight"]
                /\ UNCHANGED <<slot, wcmd>>
    /\ UNCHANGED <<mgr, chans, ctxDone, starters, tpc, callers>>

\* Faulty variant of RemoteReturn: a fault raised while dispatching is not recovered
\* and ends the worker as it is.
RemoteReturn_FaultKills(s) ==
    /\ UNCHANGED ops
    /\ UNCHANGED helps
    /\ wpc[s] = "inflight"
    /\ \E o \in RemoteOutcomes(s) :
         /\ \E r \in ReportsOf(o, wcmd[s].Type) :
               hist' = [hist EXCEPT ![s].out = Returned(@, "cmd"),
                                    ![s].faults = IF o = "panic" THEN @ + 1 ELSE @,
                                    ![s].reported = IF r = NoReport THEN @ ELSE r]
         /\ IF o = "panic"
            THEN /\ wpc' = [wpc EXCEPT ![s] = "done"]
                 /\ wcmd' = [wcmd EXCEPT ![s] = NoCmd]
                 /\ UNCHANGED slot
            ELSE Reply(s, Resp("reply", o = "ok", ErrorOf(o), wcmd[s].Response,
                               wcmd[s].Type))
    /\ UNCHANGED <<mgr, chans, ctxDone, starters, tpc, callers, remote>>

\* handleCommand: the request of the handler returns (ok, an error or the
\* abort by the cancelled context), or a fault is raised while dispatching and
\* recovered by the deferred function.
RemoteReturn(s) ==
    /\ UNCHANGED ops
    /\ UNCHANGED helps
    /\ wpc[s] = "inflight"
    /\ \E o \in RemoteOutcomes(s) :
         /\ \E r \in ReportsOf(o, wcmd[s].Type) :
               hist' = [hist EXCEPT ![s].out = Returned(@, "cmd"),
                                    ![s].faults = IF o = "panic" THEN @ + 1 ELSE @,
                                    ![s].reported = IF r = NoReport THEN @ ELSE r]
         /\ IF o = "panic"
            THEN /\ wpc' = [wpc EXCEPT ![s] = "cleanup"]
                 /\ wcmd' = [wcmd EXCEPT ![s] = NoCmd]
                 /\ UNCHANGED slot
            ELSE Reply(s, Resp("reply", o = "ok", ErrorOf(o), wcmd[s].Response,
                               wcmd[s].Type))
    /\ UNCHANGED <<mgr, chans, ctxDone, starters, tpc, callers, remote>>

\* cleanup: the lock, and hardStop up to its request when mainID is not empty.
cleanupBegin(s) ==
    /\ UNCHANGED ops
    /\ UNCHANGED helps
    /\ wpc[s] = "cleanup"
    /\ mu = 0
    /\ IF state.MainID # 0
       THEN /\ mu' = s
            /\ wpc' = [wpc EXCEPT ![s] = "hardstop"]
            /\ hist' = [hist EXCEPT ![s].hardStops = @ + 1,
                                    ![s].out = IF ctxDone[s] THEN @
                                               ELSE Issued(@, "hardstop")]
            /\ IF ctxDone[s] THEN UNCHANGED remote ELSE Sent("hardstop")
            /\ UNCHANGED <<running, state, cmdChannel, chanClosed>>
       ELSE /\ cleanupFinish(s)
            /\ UNCHANGED remote
    /\ UNCHANGED <<csrfToken, cancel, chanBuf, ctxDone, starters, tpc, callers,
                   slot, wcmd>>

\* cleanup: the hard-stop request returns (its result is ignored).
cleanupEnd(s) ==
    /\ UNCHANGED ops
    /\ UNCHANGED helps
    /\ wpc[s] = "hardstop"
    /\ mu = s
    /\ cleanupFinish(s)
    /\ UNCHANGED <<csrfToken, cancel, chanBuf, ctxDone, starters, tpc, callers,
                   slot, wcmd, remote>>

Next ==
    \/ \E i \in Starts : StartLock(i)
    \/ \E i \in Starts : StartCtx(i)
    \/ \E i \in Starts : StartFetch(i)
    \/ \E i \in Starts : StartInit(i)
    \/ \E t \in Stops : StopCheck(t)
    \/ \E t \in Stops : StopCancel(t)
    \/ \E s \in Starts : CtxCancel(s)
    \/ \E c \in Calls : SendCheck(c)
    \/ \E c \in Calls : SendEnqueue(c)
    \/ \E c \in Calls : SendRecv(c)
    \/ \E c \in Calls : SendResponseTimeout(c)
    \/ \E s \in Starts : SelectDone(s)
    \/ \E s \in Starts : SelectTick(s)
    \/ \E s \in Starts : KeepaliveReturn(s)
    \/ \E s \in Starts : SelectCmd(s)
    \/ \E s \in Starts : Dispatch(s)
    \/ \E s \in Starts : RemoteReturn(s)
    \/ \E s \in Starts : cleanupBegin(s)
    \/ \E s \in Starts : cleanupEnd(s)

Spec == Init /\ [][Next]_vars
\* The steps of the program itself (not the events of the environment) are taken
\* when they stay enabled: every goroutine is scheduled, every request returns
\* within the timeout of the HTTP client, every timer fires.  The select of the
\* worker picks among its ready cases at random, so a case that is ready
\* again and again is taken (strong fairness of the cancellation case).
Fairness ==
    /\ \A i \in Starts : WF_vars(StartCtx(i) \/ StartFetch(i) \/ StartInit(i))
    /\ \A t \in Stops : WF_vars(StopCancel(t))
    /\ \A c \in Calls : WF_vars(SendEnqueue(c) \/ SendRecv(c) \/ SendResponseTimeout(c))
    /\ \A s \in Starts : WF_vars(KeepaliveReturn(s) \/ SelectCmd(s) \/ Dispatch(s)
                                    \/ RemoteReturn(s) \/ cleanupBegin(s)
                                    \/ cleanupEnd(s))
    /\ \A s \in Starts : SF_vars(SelectDone(s))

FairSpec == Spec /\ Fairness

\* ------------------------------------------------------------------ claims

\* ------------------------------------------------------- a full queue

\* Earlier invocations of SendCommand, one less than the capacity of the
\* channel: each has enqueued its command during the Start of session 1 and has
\* returned by its 60 s timer since (the token fetch and the session creation of
\* Start may take 60 s each, and there is no worker yet to take the commands).
PriorCalls == {0 - k : k \in 1..(ChanCap - 1)}

\* The commands of the earlier invocations, in the order of their sends; their
\* type is AMDPCmdStart, which handleCommand answers as an unknown command.
PriorQueue == [k \in 1..(ChanCap - 1) |-> [Type |-> AMDPCmdStart, Response |-> k - ChanCap]]

\* Start 1 has set the running flag, made the channel and the context and
\* fetched the token; its session creation is under way; the queue holds the
\* commands of the earlier invocations, whose reply slots nobody reads.
FullInit ==
    /\ mu = 0
    /\ running = TRUE
    /\ state = [EmptyState EXCEPT !.ObjectURI = ObjectURIOf(1), !.Status = "starting"]
    /\ cmdChannel = 1
    /\ csrfToken = "token"
    /\ cancel = 1
    /\ chanBuf = [s \in Starts |-> IF s = 1 THEN PriorQueue ELSE <<>>]
    /\ chanClosed = [s \in Starts |-> FALSE]
    /\ ctxDone = [s \in Starts |-> FALSE]
    /\ spc = [i \in Starts |-> IF i = 1 THEN "init" ELSE "idle"]
    /\ sres = [i \in Starts |-> "none"]
    /\ tpc = [t \in Stops |-> "idle"]
    /\ cpc = [c \in Calls |-> "idle"]
    /\ ctype = [c \in Calls |-> -1]
    /\ cchan = [c \in Calls |-> 0]
    /\ cres = [c \in Calls |-> NoResp]
    /\ slot = [c \in Calls \cup PriorCalls |-> <<>>]
    /\ wpc = [s \in Starts |-> "none"]
    /\ wcmd = [s \in Starts |-> NoCmd]
    /\ ops = 1
    /\ remote = [k \in RemoteKinds |-> IF k = "fetch" THEN 1 ELSE 0]
    /\ hist = [s \in Starts |->
                 IF s = 1
                 THEN [EmptyHist EXCEPT !.enq = [k \in 1..(ChanCap - 1) |-> k - ChanCap]]
                 ELSE EmptyHist]
    /\ keyword = <<>>
    /\ help = NoHelp

FullSpec == FullInit /\ [][Next]_vars

\* ------------------------------------------------- GetAbapHelp, called

\* GetAbapHelp is about to be called with a keyword; the session manager is
\* new and stays so.
HelpInit ==
    /\ NewAMDPSessionManager
    /\ keyword \in Keywords
    /\ help = NoHelp

\* The call of Client.GetAbapHelp.
GetAbapHelpCall ==
    /\ ~help.called
    /\ help' = GetAbapHelp(keyword)
    /\ UNCHANGED <<keyword, mgr, chans, ctxDone, starters, tpc, callers, slot,
                   workers, ops, remote, hist>>

HelpNext == GetAbapHelpCall

HelpSpec == HelpInit /\ [][HelpNext]_vars

IsPrefix(p, q) == Len(p) <= Len(q) /\ SubSeq(q, 1, Len(p)) = p

\* Invocation c has returned the response of a command.
GotReply(c) == cpc[c] = "done" /\ cres[c].Kind = "reply"

\* The worker of session s is in its loop (selecting, dispatching or pinging).
InLoop(s) == wpc[s] \in {"loop", "dispatch", "inflight", "keepalive"}

\* Invocation c has returned the successful response of a stop command.
GotStopSuccess(c) == GotReply(c) /\ cres[c].Type = AMDPCmdStop /\ cres[c].Success

\* C1 as stated, for a call whose command the running worker has sent to the
\* remote system: the call ends with exactly one reply, the response computed
\* for its command.
C1_ExactlyOneReply ==
    [][\A c \in Calls :
         (/\ cpc[c] = "wait"
          /\ wpc[cchan[c]] = "inflight" /\ wcmd[cchan[c]].Response = c
          /\ cpc'[c] = "done")
            => (cres'[c].Kind = "reply" /\ cres'[c].Cmd = c)]_vars

\* C1 as amended: a call receives at most one reply, and a reply it receives is
\* the response the worker computed for that call's own command; a reply slot
\* never holds the response of another call's command.
C1_OwnReplyAtMostOnce ==
    \A c \in Calls :
        /\ Len(slot[c]) <= 1
        /\ \A k \in 1..Len(slot[c]) : slot[c][k].Cmd = c /\ slot[c][k].Type = ctype[c]
        /\ cres[c].Kind = "reply" => (cres[c].Cmd = c /\ cres[c].Type = ctype[c]
                                       /\ slot[c] = <<>>)
        /\ cres[c].Kind = "reply" => cpc[c] = "done"

\* Two calls overlap on one session: the later one has its reply while the
\* earlier one, whose response is in its slot, has not returned yet.
C1_Witness ==
    \E s \in Starts : \E c1, c2 \in Calls :
        /\ hist[s].enq = <<c1, c2>>
        /\ GotReply(c2)
        /\ cpc[c1] = "wait" /\ slot[c1] # <<>>

\* C2: the commands of a session are dispatched in the order of their
\* enqueueing, each at most once: what has been dispatched is a prefix of what
\* has been enqueued, the rest is the queue, and the worker holds no command
\* other than the last one dispatched.
C2_DispatchInEnqueueOrder ==
    \A s \in Starts :
        /\ IsPrefix(hist[s].disp, hist[s].enq)
        /\ hist[s].enq = hist[s].disp \o [k \in 1..Len(chanBuf[s]) |-> chanBuf[s][k].Response]
        /\ \A j, k \in 1..Len(hist[s].disp) : j # k => hist[s].disp[j] # hist[s].disp[k]
        /\ wcmd[s] # NoCmd =>
              /\ hist[s].disp # <<>>
              /\ wcmd[s].Response = hist[s].disp[Len(hist[s].disp)]

\* Two commands were enqueued behind one another and both were dispatched.
C2_Witness ==
    \E s \in Starts : Len(hist[s].disp) = 2 /\ wpc[s] = "inflight"

\* C3: at most one session is between its accepted running check and the end
\* of its cleanup or unwinding, at most one worker exists, the running flag is
\* set exactly while such a session exists, and a Start spawns one worker if it
\* succeeds and none otherwise.
C3_OneSessionOneWorker ==
    /\ Cardinality({s \in Starts : Live(s)}) <= 1
    /\ Cardinality({s \in Starts : wpc[s] \notin {"none", "done"}}) <= 1
    /\ running <=> \E s \in Starts : Live(s)
    /\ \A s \in Starts :
          /\ hist[s].spawned = (IF sres[s] = "ok" THEN 1 ELSE 0)
          /\ wpc[s] # "none" => sres[s] = "ok"

\* A second Start was turned away while the worker of the first is running.
C3_Witness ==
    \E i, j \in Starts : InLoop(i) /\ sres[j] = "AlreadyRunning"

\* C4: a Start that finds the running flag set returns the already-active
\* error and changes nothing of the manager, its queue or its session, and
\* sends no request.
C4_StartWhileRunning ==
    [][\A i \in Starts :
         (spc[i] = "idle" /\ spc'[i] # "idle" /\ running)
            => /\ spc'[i] = "done"
               /\ sres'[i] = "AlreadyRunning"
               /\ UNCHANGED <<mu, running, state, cmdChannel, csrfToken, cancel,
                              chanBuf, chanClosed, ctxDone, wpc, wcmd, remote>>]_vars

\* A Start was turned away by a session that has its ids.
C4_Witness ==
    \E i, j \in Starts :
        sres[j] = "AlreadyRunning" /\ state.MainID = i /\ state.SessionID = i

\* C5: a SendCommand that finds the running flag clear returns the
\* not-running error at once, enqueues nothing, sends no request and does not
\* fault.
C5_SendWhileNotRunning ==
    [][\A c \in Calls :
         (cpc[c] = "idle" /\ cpc'[c] # "idle" /\ ~running)
            => /\ cpc'[c] = "done"
               /\ cres'[c] = ErrResult("NotRunning")
               /\ UNCHANGED <<mu, running, state, cmdChannel, csrfToken, cancel,
                              chanBuf, chanClosed, ctxDone, slot, wpc, wcmd, remote,
                              hist>>]_vars

\* A call is answered by a session, the session is cleaned up, and the next
\* call returns the not-running error.
C5_Witness ==
    \E s \in Starts : \E c1, c2 \in Calls :
        /\ c1 < c2
        /\ wpc[s] = "done"
        /\ GotReply(c1)
        /\ cres[c2] = ErrResult("NotRunning")

\* C6: once Stop() has found the session running, or the context of a running
\* session has been cancelled, the running flag eventually becomes false.
C6_StopLeadsToNotRunning ==
    /\ \A t \in Stops : (tpc[t] = "cancel") ~> ~running
    /\ \A s \in Starts : (Live(s) /\ ctxDone[s]) ~> ~Live(s)

\* C7: the cleanup of a session runs once when its worker has ended and not at
\* all before; the hard-stop is invoked at most once per session and a command
\* queue is closed at most once; a session that was not started has no cleanup.
C7_CleanupOnce ==
    \A s \in Starts :
        /\ hist[s].cleanups = (IF wpc[s] = "done" THEN 1 ELSE 0)
        /\ hist[s].hardStops <= 1
        /\ hist[s].closes <= 1
        /\ hist[s].closes = (IF chanClosed[s] THEN 1 ELSE 0)
        /\ hist[s].spawned = 0 => hist[s].cleanups = 0 /\ hist[s].hardStops = 0

\* A worker has ended after a stop command and a cancellation came together.
C7_Witness ==
    \E s \in Starts : \E c \in Calls :
        /\ wpc[s] = "done"
        /\ ctxDone[s]
        /\ hist[s].disp = <<c>> /\ ctype[c] = AMDPCmdStop
        /\ hist[s].hardStops = 1

\* C8 as stated: when SendCommand(Stop) has returned success, the session it
\* stopped is torn down.
C8_TornDownAtStopReply ==
    \A c \in Calls : GotStopSuccess(c) => wpc[cchan[c]] = "done"

\* C8 as amended: when SendCommand(Stop) has returned success, the worker has
\* left its loop for good; the running flag is still set only while the cleanup
\* of that worker is pending or because a later Start has set it again.
C8_LoopLeftAtStopReply ==
    \A c \in Calls :
        GotStopSuccess(c) =>
            /\ ~InLoop(cchan[c])
            /\ wpc[cchan[c]] \in {"cleanup", "hardstop", "done"}
            /\ running => \/ wpc[cchan[c]] \in {"cleanup", "hardstop"}
                          \/ \E s \in Starts : s # cchan[c] /\ Live(s)

\* The caller has the successful stop reply while cleanup is at its hard-stop.
C8_Witness ==
    \E c \in Calls : GotStopSuccess(c) /\ wpc[cchan[c]] = "hardstop" /\ running

\* C9: a Start whose token fetch fails returns the authentication error with
\* the running flag cleared, and for that Start no session creation is
\* attempted and no worker is created; a Start goes on to the session creation
\* only with a valid token.
C9_TokenFetchFails ==
    /\ [][\A i \in Starts :
            /\ (spc[i] = "fetch" /\ spc'[i] = "done")
                  => /\ sres'[i] = "AuthFailure"
                     /\ ~running'
                     /\ remote'.start = remote.start
                     /\ wpc' = wpc
            /\ (spc[i] = "fetch" /\ spc'[i] = "init")
                  => csrfToken' = "token" /\ running']_vars
    /\ [](\A i \in Starts :
            sres[i] = "AuthFailure"
               => hist[i].startCalls = 0 /\ hist[i].spawned = 0 /\ wpc[i] = "none")

\* A Start has returned the authentication error.
C9_Witness ==
    \E i \in Starts : sres[i] = "AuthFailure" /\ ~running /\ csrfToken = "unsafe"

\* C10: a Start whose session creation fails returns an error with the running
\* flag cleared and the ids of the state empty, and creates no worker.
C10_SessionCreationFails ==
    /\ [][\A i \in Starts :
            (spc[i] = "init" /\ spc'[i] = "done" /\ sres'[i] # "ok")
               => /\ sres'[i] = "RemoteOperationFailure"
                  /\ ~running'
                  /\ wpc'[i] = "none"
                  /\ state'.MainID = 0 /\ state'.SessionID = 0]_vars
    /\ [](\A i \in Starts :
            sres[i] = "RemoteOperationFailure"
               => hist[i].spawned = 0 /\ wpc[i] = "none" /\ hist[i].startCalls = 1)

\* A Start has failed at the session creation, after a successful token fetch.
C10_Witness ==
    \E i \in Starts :
        sres[i] = "RemoteOperationFailure" /\ csrfToken = "token" /\ ~running

\* ------------------------------------------------------------------ C11

\* C11: at the return of a successful Start the running flag is set, the
\* status is "running", the session id and the main id are the ones the
\* session creation issued, the object URI is the requested one and the worker
\* of the session has been spawned, once.
C11_StartSuccessPopulates ==
    [][\A i \in Starts :
         (spc[i] = "init" /\ spc'[i] = "done" /\ sres'[i] = "ok")
            => /\ running'
               /\ state' = [EmptyState EXCEPT !.SessionID = i,
                                              !.MainID = hist'[i].issued,
                                              !.ObjectURI = ObjectURIOf(i),
                                              !.Status = "running"]
               /\ wpc[i] = "none" /\ wpc'[i] = "loop"
               /\ hist'[i].spawned = 1]_vars

\* A Start has returned successfully with a main id issued by the remote
\* system, and its worker is at the select of its loop.
C11_Witness ==
    \E i \in Starts :
        /\ sres[i] = "ok" /\ hist[i].issued = i
        /\ running /\ state.MainID = i /\ state.Status = "running"
        /\ wpc[i] = "loop"

\* ------------------------------------------------------------------ C12

\* Stop on a manager that is not running returns and changes nothing.
C12_NoOpWhenNotRunning ==
    [][\A t \in Stops :
         (tpc[t] = "idle" /\ tpc'[t] # "idle" /\ ~running)
            => /\ tpc'[t] = "done"
               /\ UNCHANGED <<mgr, chans, ctxDone, starters, callers, slot,
                              workers, remote, hist>>]_vars

\* Stop on a running manager only cancels the context m.cancel stands for,
\* which cancelling again leaves as it is, and a session is cleaned up at most
\* once however many Stops there were.
C12_OneCancellationOneCleanup ==
    /\ [][\A t \in Stops :
            (tpc[t] # "done" /\ tpc'[t] = "done" /\ tpc[t] = "cancel")
               => /\ \A s \in Starts : ctxDone'[s] = (ctxDone[s] \/ s = cancel)
                  /\ UNCHANGED <<mgr, chans, starters, callers, slot, workers,
                                 remote, hist>>]_vars
    /\ [](\A s \in Starts : hist[s].cleanups <= 1 /\ hist[s].hardStops <= 1)

\* A Stop that is called while a request of the worker is outstanding at the
\* remote system can take its first step at once: it does not wait for the
\* request to return.
C12_NeverWaits ==
    [](\A t \in Stops : \A s \in Starts :
          (MayBegin(tpc, t) /\ hist[s].out # <<>>) => ENABLED StopCheck(t))

\* C12: Stop is idempotent and never fails: not running it is a no-op; on a
\* running session any number of calls have the effect of one (one
\* cancellation, one cleanup); it returns without waiting for the teardown of
\* the worker.
C12_StopIdempotentNeverWaits ==
    /\ C12_NoOpWhenNotRunning
    /\ C12_OneCancellationOneCleanup
    /\ C12_NeverWaits

\* ------------------------------------------------------------------ C13

\* The requests a step sends to the remote system.
NewRequests(kind) == remote'[kind] - remote[kind]

\* C13: at most one request is outstanding against a session: the worker
\* never has two of command dispatch, keepalive ping and hard-stop in flight
\* together, and once the worker is spawned every request for the session is
\* sent by that worker, one at a time, while none is outstanding.
C13_OneOutstandingCall ==
    /\ [](\A s \in Starts :
            /\ Len(hist[s].out) <= 1
            /\ hist[s].out # <<>>
                  => /\ hist[s].spawned = 1
                     /\ \/ wpc[s] = "inflight" /\ hist[s].out = <<"cmd">>
                        \/ wpc[s] = "keepalive" /\ hist[s].out = <<"keepalive">>
                        \/ wpc[s] = "hardstop" /\ hist[s].out = <<"hardstop">>)
    /\ [][\A s \in Starts :
            (hist[s].spawned = 1 /\ wpc[s] # "done"
               /\ \E k \in RemoteKinds : NewRequests(k) # 0)
               => /\ NewRequests("fetch") = 0 /\ NewRequests("start") = 0
                  /\ NewRequests("cmd") + NewRequests("keepalive")
                        + NewRequests("hardstop") = 1
                  /\ hist[s].out = <<>>
                  /\ Len(hist'[s].out) = 1
                  /\ wpc'[s] # wpc[s]
                  /\ UNCHANGED <<spc, tpc, cpc>>]_vars

\* A command is in flight at the remote system after a keepalive ping of the
\* same session has been sent and has returned.
C13_Witness ==
    \E s \in Starts :
        /\ wpc[s] = "inflight" /\ hist[s].out = <<"cmd">>
        /\ remote["keepalive"] = 1 /\ remote["cmd"] = 1

\* ------------------------------------------------------------------ C14

\* The statuses of a session that exists at the remote system. Of these the
\* program writes "running" only.
ActiveStatuses == {"running", "at_breakpoint", "stopping"}

\* C14: in every reachable state the main id of the session state is not empty
\* if and only if the status is one of running, at breakpoint, stopping.
C14_MainIDIffActive ==
    (state.MainID # 0) <=> (state.Status \in ActiveStatuses)

\* ------------------------------------------------------------------ C15

\* The worker of session s ends the dispatch of the command of caller c with
\* an error response, in this step.
FailsCommand(s, c) ==
    /\ wcmd[s].Response = c
    /\ wcmd'[s] = NoCmd
    /\ slot'[c] # slot[c]
    /\ ~slot'[c][Len(slot'[c])].Success

\* C15: a failed command other than Stop is scoped to that command: the error
\* goes to its own reply slot only, the running flag stays true, the session
\* state is unchanged, and the worker is back at its select with the queue as
\* it was, so that the commands around it are dispatched and answered as ever.
C15_FailedCommandScoped ==
    /\ [][\A s \in Starts : \A c \in Calls :
            (FailsCommand(s, c) /\ wcmd[s].Type # AMDPCmdStop)
               => /\ running /\ running'
                  /\ state' = state
                  /\ wpc'[s] = "loop"
                  /\ \A d \in Calls \ {c} : slot'[d] = slot[d]
                  /\ slot'[c] = <<Resp("reply", FALSE, slot'[c][1].Error, c,
                                       wcmd[s].Type)>>
                  /\ UNCHANGED <<cmdChannel, chans, cres>>]_vars
    /\ [](\A c \in Calls :
            (cres[c].Kind = "reply" /\ ~cres[c].Success) => cres[c].Cmd = c)

\* A command has failed at the remote system and its caller has the error; a
\* command enqueued after it has been answered with success by the same worker.
C15_Witness ==
    \E s \in Starts : \E c, d \in Calls :
        /\ hist[s].disp = <<c, d>>
        /\ cres[c] = Resp("reply", FALSE, "remote", c, AMDPCmdStep)
        /\ cres[d] = Resp("reply", TRUE, "", d, AMDPCmdStep)
        /\ running /\ wpc[s] = "loop"

\* ------------------------------------------------------------------ C16

\* C16: a fault raised while the worker dispatches a command is recovered by
\* the worker: the loop is left for the cleanup, no further command is
\* dispatched, the cleanup is the only way on and runs exactly once, and when
\* it has run the manager is not running and its state is empty.
C16_FaultRecovered ==
    /\ [][\A s \in Starts :
            hist'[s].faults # hist[s].faults
               => /\ hist[s].faults = 0 /\ hist'[s].faults = 1
                  /\ wpc'[s] = "cleanup"
                  /\ hist'[s].cleanups = 0]_vars
    /\ [][\A s \in Starts :
            hist[s].faults = 1
               => /\ hist'[s].disp = hist[s].disp
                  /\ wpc'[s] \in {"cleanup", "hardstop", "done"}
                  /\ (wpc[s] # "done" /\ wpc'[s] = "done")
                        => ~running' /\ state' = EmptyState]_vars
    /\ [](\A s \in Starts :
            hist[s].faults = 1
               => /\ hist[s].cleanups = IF wpc[s] = "done" THEN 1 ELSE 0
                  /\ (wpc[s] = "done" /\ \A i \in Starts : i > s => spc[i] = "idle")
                        => ~IsRunning /\ State = EmptyState)

\* The worker has recovered a fault and has cleaned up, with a hard-stop.
C16_Witness ==
    \E s \in Starts :
        /\ hist[s].faults = 1 /\ wpc[s] = "done"
        /\ hist[s].cleanups = 1 /\ hist[s].hardStops = 1
        /\ ~IsRunning /\ State = EmptyState

\* ------------------------------------------------------------------ C17

\* The read lock IsRunning and State take can be acquired.
ReadLockFree == mu = 0

\* C17: IsRunning and State never block on the worker: while a request of the
\* worker, the hard-stop of cleanup included, is outstanding at the remote
\* system the lock they take is free.
C17_ReadersNeverBlock ==
    \A s \in Starts : hist[s].out # <<>> => ReadLockFree

\* ------------------------------------------------------------------ C18

\* A keepalive ping of session s is outstanding at the remote system.
PingOutstanding(s) == \E k \in 1..Len(hist[s].out) : hist[s].out[k] = "keepalive"

\* C18: a keepalive tick never delays a command: while a ping is outstanding
\* the worker can still take a queued command from the channel.
C18_TickNeverDelays ==
    \A s \in Starts :
        (PingOutstanding(s) /\ cmdChannel = s /\ chanBuf[s] # <<>>)
            => ENABLED SelectCmd(s)

\* ------------------------------------------------------------------ C19

\* C19: a keepalive ping leaves the running flag, the session state and the
\* command queue as they are and never ends the worker, whatever its outcome:
\* the step that sends it and the step in which it returns change nothing of
\* the manager and the channels, and the worker is back at its select after
\* it; a ping is sent only with a non-empty main id.
C19_KeepaliveFrame ==
    /\ [][NewRequests("keepalive") # 0
            => /\ state.MainID # 0
               /\ NewRequests("keepalive") = 1
               /\ \E s \in Starts : wpc[s] = "loop" /\ wpc'[s] = "keepalive"
               /\ UNCHANGED <<mgr, chans, ctxDone, slot, wcmd, callers>>]_vars
    /\ [][\A s \in Starts :
            (wpc[s] = "keepalive" /\ wpc'[s] # wpc[s])
               => /\ wpc'[s] = "loop"
                  /\ UNCHANGED <<mgr, chans, ctxDone, slot, wcmd, callers>>]_vars
    /\ [](\A s \in Starts :
            wpc[s] = "keepalive" => running /\ state.MainID # 0 /\ cmdChannel = s)

\* A keepalive ping has been sent and has returned: the worker is at its
\* select again, the session runs and a command enqueued meanwhile is still
\* in the queue.
C19_Witness ==
    \E s \in Starts :
        /\ remote["keepalive"] = 1 /\ hist[s].out = <<>>
        /\ wpc[s] = "loop" /\ running /\ state.Status = "running"
        /\ Len(chanBuf[s]) = 1

\* ------------------------------------------------------------------ C20

\* A step of a Start invocation, taken with the lock free for it.
StartWrites ==
    \E i \in Starts : spc'[i] # spc[i] /\ mu = 0 /\ mu' = 0

\* The step of the cleanup of worker s that resets the manager and unlocks,
\* with the lock free for it or held by it.
CleanupWrites ==
    \E s \in Starts :
        /\ wpc[s] \in {"cleanup", "hardstop"} /\ wpc'[s] = "done"
        /\ hist'[s].cleanups = hist[s].cleanups + 1
        /\ mu \in {0, s} /\ mu' = 0

\* C20: the running flag and the session state are written by Start (its
\* session creation included) and by the cleanup of the worker only, with the
\* write lock; no step of SendCommand, of Stop or of a command handler writes
\* them.
C20_WritersOfRunningAndState ==
    [][(running' # running \/ state' # state)
          => /\ StartWrites \/ CleanupWrites
             /\ UNCHANGED <<tpc, cpc, cres, wcmd, slot, remote.cmd,
                            remote.keepalive>>]_vars

\* Start has written the flag and the state of a session, and the cleanup of
\* its worker has reset them after a Stop that cancelled the session.
C20_Witness ==
    \E s \in Starts : \E t \in Stops :
        /\ sres[s] = "ok" /\ hist[s].issued = s
        /\ tpc[t] = "done" /\ ctxDone[s]
        /\ wpc[s] = "done" /\ hist[s].cleanups = 1
        /\ ~running /\ state = EmptyState

\* ------------------------------------------------------------------ C21

\* What SendCommand may return: the response of its command or one of its own
\* three errors.
SendOutcomes(c) ==
    \/ cres[c].Kind = "reply"
    \/ cres[c] \in {ErrResult("NotRunning"), ErrResult("QueueTimeout"),
                    ErrResult("ResponseTimeout")}

\* A SendCommand that has begun ends, under fair scheduling.
C21_SendEnds ==
    \A c \in Calls : (cpc[c] \in {"enq", "wait"}) ~> (cpc[c] = "done")

\* C21: every SendCommand ends, and it ends by returning a reply, the
\* not-running error, the queue-timeout error or the response-timeout error,
\* whatever the worker and Start do meanwhile.
C21_SendCommandTerminates ==
    /\ [](\A c \in Calls : cpc[c] = "done" => SendOutcomes(c))
    /\ C21_SendEnds

\* ------------------------------------------------------------------ C22

\* The callers whose commands sequence q holds.
CallersIn(q) == {q[k] : k \in 1..Len(q)}

\* C22: the command queue never holds more than its capacity; a SendCommand
\* returns the queue-timeout error only when its channel is full, and its
\* command is then not enqueued and never dispatched.
C22_QueueBounded ==
    /\ [](\A s \in Starts : Len(chanBuf[s]) <= ChanCap)
    /\ [][\A c \in Calls :
            (cpc[c] = "enq" /\ cres'[c] = ErrResult("QueueTimeout"))
               => /\ Len(chanBuf[cchan[c]]) = ChanCap
                  /\ cpc'[c] = "done"
                  /\ UNCHANGED <<chans, hist, slot, workers, remote>>]_vars
    /\ [](\A c \in Calls :
            cres[c] = ErrResult("QueueTimeout")
               => \A s \in Starts :
                     /\ c \notin CallersIn(hist[s].enq)
                     /\ c \notin CallersIn(hist[s].disp)
                     /\ wcmd[s].Response # c
                     /\ \A k \in 1..Len(chanBuf[s]) : chanBuf[s][k].Response # c)

\* A SendCommand has returned the queue-timeout error at a full channel, and
\* the worker has dispatched from that channel since.
C22_Witness ==
    \E c \in Calls : \E s \in Starts :
        /\ cpc[c] = "done" /\ cres[c] = ErrResult("QueueTimeout")
        /\ Len(hist[s].enq) = ChanCap
        /\ hist[s].disp # <<>>

\* ------------------------------------------------------------------ C23

\* Keyword kw is empty or white space only.
IsBlank(kw) == \A k \in 1..Len(kw) : kw[k] = " "

\* u is kw without the white space around it, in upper case: kw is white
\* space, then a part that neither begins nor ends with white space and whose
\* upper case is u, then white space.
IsTrimmedUpper(u, kw) ==
    \E i, j \in 1..Len(kw) :
        /\ i <= j /\ kw[i] # " " /\ kw[j] # " "
        /\ \A k \in 1..Len(kw) : (k < i \/ k > j) => kw[k] = " "
        /\ Len(u) = j - i + 1
        /\ \A k \in 1..Len(u) :
              u[k] = (CASE kw[i + k - 1] = "a" -> "A" [] OTHER -> kw[i + k - 1])

C24_NoDequeueAfterCancel ==
    [][\A s \in Starts :
         (ctxDone[s] /\ wpc[s] = "loop")
            => /\ hist'[s].disp = hist[s].disp
               /\ chanBuf'[s] = chanBuf[s] \/ Len(chanBuf'[s]) > Len(chanBuf[s])
               /\ wpc'[s] \in {"loop", "cleanup"}]_vars

\* ------------------------------------------------------------------ C25

\* C25: cancellation is not preemptive: a request of a command that is in
\* flight when the context of the session is cancelled ends with the result of
\* the remote system, the reply with that result goes to the slot of its
\* caller, and the worker is back at its select, where it observes the
\* cancellation.
C25_InFlightCallFinishes ==
    [][\A s \in Starts :
         (wpc[s] = "inflight" /\ ctxDone[s] /\ wpc'[s] # "inflight"
            /\ hist'[s].faults = hist[s].faults)
            => LET c == wcmd[s].Response
               IN  /\ slot'[c] # <<>>
                   /\ slot'[c][Len(slot'[c])].Error \in {ErrorOf("ok"), ErrorOf("error")}
                   /\ wpc'[s] \in {"loop", "cleanup"}]_vars

\* ------------------------------------------------------------------ C26

\* Invocation c has given up waiting for the response of its command.
GaveUp(c) == cpc[c] = "done" /\ cres[c] = ErrResult("ResponseTimeout")

\* The number of times caller c occurs in sequence q.
Occurrences(q, c) == Cardinality({k \in 1..Len(q) : q[k] = c})

\* C26: a caller that gives up waiting does not cancel its command: the step
\* of giving up leaves the queue and the worker as they are, a command is
\* dispatched at most once and in the order of the queue, and the worker that
\* dispatches the command of any caller, one that gave up included, can always
\* take its next step and goes on after it.
C26_AbandonedCallerNeverStalls ==
    /\ [][\A c \in Calls :
            (cpc[c] = "wait" /\ GaveUp(c)')
               => UNCHANGED <<mgr, chans, workers, slot, hist, remote, ctxDone>>]_vars
    /\ [](\A s \in Starts :
            /\ IsPrefix(hist[s].disp, hist[s].enq)
            /\ \A c \in Calls : Occurrences(hist[s].disp, c) <= 1
            /\ wpc[s] = "dispatch" => ENABLED Dispatch(s)
            /\ wpc[s] = "inflight" => ENABLED RemoteReturn(s))
    /\ [][\A s \in Starts : \A c \in Calls :
            (wcmd[s].Response = c /\ wcmd'[s] = NoCmd /\ GaveUp(c))
               => /\ wpc'[s] \in {"loop", "cleanup"}
                  /\ UNCHANGED <<chans, cpc, cres>>]_vars

\* A caller has given up, its command has been dispatched all the same, and
\* the command behind it has been answered.
C26_Witness ==
    \E s \in Starts : \E c, d \in Calls :
        /\ GaveUp(c)
        /\ hist[s].disp = <<c, d>>
        /\ cpc[d] = "done" /\ cres[d].Kind = "reply" /\ cres[d].Cmd = d
        /\ remote["cmd"] = 2

\* ------------------------------------------------------------------ C27

\* C27: for a stop command the worker replies first and then exits: the step
\* that ends the dispatch of a stop command (a fault apart) puts the response,
\* successful or not, in the slot of its caller and leaves the loop for a
\* cleanup that has not begun; a stop command is the last command its worker
\* dispatches.
C27_StopRepliesThenExits ==
    /\ [][\A s \in Starts :
            (wcmd[s].Type = AMDPCmdStop /\ wcmd'[s] = NoCmd
               /\ hist'[s].faults = hist[s].faults)
               => LET c == wcmd[s].Response
                  IN  /\ Len(slot'[c]) = 1
                      /\ slot'[c][1].Kind = "reply"
                      /\ slot'[c][1].Cmd = c /\ slot'[c][1].Type = AMDPCmdStop
                      /\ wpc'[s] = "cleanup"
                      /\ hist'[s].cleanups = 0 /\ hist'[s].hardStops = 0
                      /\ running' /\ mu' = 0]_vars
    /\ [](\A s \in Starts : \A k \in 1..Len(hist[s].disp) :
            ctype[hist[s].disp[k]] = AMDPCmdStop
               => /\ k = Len(hist[s].disp)
                  /\ wpc[s] \in {"dispatch", "inflight", "cleanup", "hardstop", "done"})

\* The remote stop has failed, the caller of the stop command has the error
\* reply, the worker has exited and cleaned up, and the command queued behind
\* the stop command has not been dispatched.
C27_Witness ==
    \E s \in Starts : \E c, d \in Calls :
        /\ cpc[c] = "done" /\ cres[c] = Resp("reply", FALSE, "remote", c, AMDPCmdStop)
        /\ hist[s].enq = <<c, d>> /\ hist[s].disp = <<c>>
        /\ wpc[s] = "done" /\ hist[s].cleanups = 1

\* ------------------------------------------------------------------ C28

\* The cleanup of worker s begins in this step.
CleanupBegins(s) == wpc[s] = "cleanup" /\ wpc'[s] # "cleanup"

\* The cleanup of worker s completes in this step.
CleanupCompletes(s) == wpc[s] \in {"cleanup", "hardstop"} /\ wpc'[s] = "done"

\* The hard-stop request is sent exactly when the main id is not empty as the
\* cleanup begins, and the state is reset only after it.
C28_HardStopIffMainID ==
    [][\A s \in Starts :
         CleanupBegins(s)
            => /\ (NewRequests("hardstop") = 1) <=> (state.MainID # 0)
               /\ NewRequests("hardstop") = 1 => state' = state /\ running' = running]_vars

\* When the cleanup completes the state is empty, the running flag is false
\* and the channel is closed and forgotten.
C28_Postcondition ==
    [][\A s \in Starts :
         CleanupCompletes(s)
            => /\ state' = EmptyState
               /\ ~running'
               /\ cmdChannel' = 0
               /\ chanClosed'[s]
               /\ mu' = 0]_vars

\* C28: cleanup issues the remote hard-stop if and only if the main id is not
\* empty at that moment, and before it resets the state; when it completes the
\* state is empty, the running flag is false and the command queue is
\* released, whatever the outcome of the hard-stop.
C28_CleanupStepsAndPostcondition ==
    /\ C28_HardStopIffMainID
    /\ C28_Postcondition

\* ------------------------------------------------------------------ C29

\* C29: when the dispatch of a step or status command succeeds, the worker
\* has stored what the result reports (status, current line, current
\* procedure) in the session state by the time it replies.
C29_StateReflectsResult ==
    [][\A s \in Starts : \A c \in Calls :
         (wcmd[s].Response = c /\ wcmd'[s] = NoCmd
            /\ wcmd[s].Type \in {AMDPCmdStep, AMDPCmdGetStatus}
            /\ slot'[c] # slot[c] /\ slot'[c][Len(slot'[c])].Success)
            => /\ state'.Status = hist'[s].reported.status
               /\ state'.CurrentLine = hist'[s].reported.line
               /\ state'.CurrentProc = hist'[s].reported.proc]_vars

\* ------------------------------------------------------------------ C30

\* The ids of the session state.
Ids(st) == <<st.SessionID, st.MainID, st.ObjectURI>>

\* C30: the main id is set once per session: it is empty while Start runs, is
\* written by the successful session creation of that Start and by nothing
\* else, is left as it is, with the session id and the object URI, by every
\* step of the worker in its loop (command dispatch, keepalive), and is
\* emptied by the cleanup.
C30_MainIDSetOnce ==
    /\ [][state'.MainID # state.MainID
            => \/ \E i \in Starts :
                     /\ spc[i] = "init" /\ spc'[i] = "done" /\ sres'[i] = "ok"
                     /\ state.MainID = 0
                     /\ state'.MainID = hist'[i].issued
                     /\ hist[i].spawned = 0 /\ hist'[i].startCalls = 1
               \/ \E s \in Starts :
                     CleanupCompletes(s) /\ state'.MainID = 0]_vars
    /\ [][\A s \in Starts :
            (InLoop(s) /\ wpc'[s] # "done" /\ <<wpc[s], wcmd[s]>> # <<wpc'[s], wcmd'[s]>>)
               => Ids(state') = Ids(state)]_vars
    /\ [](\A i \in Starts : spc[i] \in {"ctx", "fetch", "init"} => state.MainID = 0)
    /\ [](~running => state.MainID = 0 /\ state.SessionID = 0)

\* A session has had a main id through a keepalive and the dispatch of a
\* command, and the main id is empty again after its cleanup.
C30_Witness ==
    \E s \in Starts :
        /\ hist[s].issued = s /\ hist[s].disp # <<>>
        /\ remote["keepalive"] = 1 /\ remote["cmd"] = 1
        /\ wpc[s] = "done" /\ state.MainID = 0

\* ------------------------------------------------------------------ C31

\* The number of times the command of caller c has been taken for dispatch,
\* over all sessions.
Dispatches(c) ==
    Cardinality({<<s, k>> \in Starts \X (1..ChanCap) :
                    k <= Len(hist[s].disp) /\ hist[s].disp[k] = c})

\* C31: a reply slot receives no response or one and never more: a response is
\* put in the slot of a caller only by the worker that ends the dispatch of
\* the command of that caller, into the empty slot of a caller that has had no
\* response, and a command is dispatched at most once.
C31_SlotAtMostOneResponse ==
    /\ [](\A c \in Calls :
            /\ Len(slot[c]) <= 1
            /\ Dispatches(c) <= 1
            /\ cres[c].Kind = "reply" => slot[c] = <<>>
            /\ slot[c] # <<>> => slot[c][1].Cmd = c /\ Dispatches(c) = 1)
    /\ [][\A c \in Calls :
            Len(slot'[c]) > Len(slot[c])
               => /\ slot[c] = <<>> /\ cres[c].Kind # "reply"
                  /\ \E s \in Starts :
                        /\ wcmd[s].Response = c /\ wcmd'[s] = NoCmd
                        /\ wpc[s] \in {"dispatch", "inflight"}]_vars

\* The worker has put the response of a command in the slot of its caller,
\* who has not taken it yet.
C31_Witness ==
    \E c \in Calls : \E s \in Starts :
        /\ cpc[c] = "wait" /\ Len(slot[c]) = 1 /\ slot[c][1].Success
        /\ hist[s].disp = <<c>> /\ wpc[s] = "loop"

\* ------------------------------------------------------------------ C32

\* C32: a SendCommand that has passed the running check and captured the
\* channel never sends on a channel that cleanup has closed: the channel it is
\* about to send on is open, and no call ends with the fault of a send on a
\* closed channel.
C32_NeverSendsOnClosedChannel ==
    \A c \in Calls :
        /\ cpc[c] = "enq" => (IF cchan[c] = 0 THEN FALSE ELSE ~chanClosed[cchan[c]])
        /\ cres[c] # ErrResult("panic")

\* ------------------------------------------------------------------ C33

\* C33: the cancellation a Stop signals after it has seen the running flag set
\* reaches the session that is current: the step in which Stop uses m.cancel,
\* with the manager still running, cancels the context of the session whose
\* Start has marked the manager running, also when that Start has not stored
\* its cancel function yet.
C33_StopReachesCurrentSession ==
    [][\A t \in Stops :
         (tpc[t] = "cancel" /\ tpc'[t] = "done" /\ running)
            => cmdChannel # 0 /\ ctxDone'[cmdChannel]]_vars

\* ------------------------------------------------------------------ C34

\* C34: whenever the running flag is false the session state is the empty
\* value: no object URI, no status, no ids.
C34_NotRunningStateEmpty ==
    ~IsRunning => State = EmptyState

\* ------------------------------------------------------------------ C35

\* Session s has ended: its Start has failed or its worker has cleaned up.
Ended(s) ==
    \/ sres[s] \in {"AuthFailure", "RemoteOperationFailure"}
    \/ wpc[s] = "done"

\* C35: the manager is reusable and its sessions are isolated: when no
\* session is under way the running flag is false, so that a Start that comes
\* after any ending is accepted; an accepted Start gets a channel of its own
\* that is empty and open; and a worker takes commands from the channel of its
\* own session only, sent there by callers that captured that channel.
C35_ReusableAndIsolated ==
    /\ []((\A s \in Starts : ~Live(s)) => ~running)
    /\ [][\A i \in Starts :
            (spc[i] = "idle" /\ spc'[i] # "idle"
               /\ (\E s \in Starts : Ended(s)) /\ (\A s \in Starts : ~Live(s)))
               => /\ ~running
                  /\ spc'[i] = "ctx" /\ running'
                  /\ cmdChannel' = i /\ cmdChannel # i
                  /\ chanBuf[i] = <<>> /\ ~chanClosed[i]]_vars
    /\ [][\A s \in Starts :
            (wcmd'[s] # wcmd[s] /\ wcmd'[s] # NoCmd)
               => /\ cmdChannel = s
                  /\ wcmd'[s] = Head(chanBuf[s])
                  /\ cchan[wcmd'[s].Response] = s
                  /\ wcmd'[s].Response \in CallersIn(hist[s].enq)]_vars
    /\ [](\A s \in Starts : \A k \in 1..Len(hist[s].enq) : cchan[hist[s].enq[k]] = s)

\* A Start has failed with a command enqueued meanwhile; a later Start has
\* been accepted and has succeeded, and its worker is at its select with an
\* empty channel of its own while the command stays in the channel of the
\* failed Start.
C35_Witness ==
    \E s, i \in Starts : \E c \in Calls :
        /\ s < i /\ Ended(s) /\ wpc[s] = "none"
        /\ hist[s].enq = <<c>> /\ chanBuf[s] # <<>>
        /\ sres[i] = "ok" /\ wpc[i] = "loop" /\ cmdChannel = i
        /\ chanBuf[i] = <<>> /\ hist[i].disp = <<>>


\* ------------------------------------------------------------------ C36

\* The requests that carry the mainID of a session.
SessionKinds == {"cmd", "keepalive", "hardstop"}

\* The worker that sends a request of the kind in this step.
Sends(s, kind) ==
    /\ NewRequests(kind) > 0
    /\ wpc'[s] = CASE kind = "cmd" -> "inflight"
                   [] kind = "keepalive" -> "keepalive"
                   [] OTHER -> "hardstop"
    /\ wpc[s] # wpc'[s]

\* C36: no request for a session is sent with an empty mainID.  While mainID is
\* empty no step sends a command request, a keepalive ping or a hard-stop; a
\* command with a handler is then answered at once, a stop command with success
\* and every other one with the no-active-session error; the tick and the
\* cleanup go on without a request.  Every request that is sent is sent by the
\* worker of the session with the mainID the manager holds, which is the one
\* the remote system issued for that session.
C36_NoCallWithEmptyMainID ==
    [][/\ \A k \in SessionKinds :
            NewRequests(k) > 0
               => /\ state.MainID # 0
                  /\ \E s \in Starts :
                        /\ Sends(s, k)
                        /\ cmdChannel = s
                        /\ state.MainID = hist[s].issued
                        /\ state.SessionID = s
       /\ \A s \in Starts :
            (wpc[s] = "dispatch" /\ wpc'[s] # "dispatch" /\ state.MainID = 0
               /\ wcmd[s].Type \in RemoteTypes)
               => /\ UNCHANGED remote
                  /\ wpc'[s] # "inflight"
                  /\ slot'[ReplySlot(wcmd[s])]
                        = Append(slot[ReplySlot(wcmd[s])],
                                 IF wcmd[s].Type = AMDPCmdStop
                                 THEN Resp("reply", TRUE, "", wcmd[s].Response,
                                           wcmd[s].Type)
                                 ELSE Resp("reply", FALSE, "no active session",
                                           wcmd[s].Response, wcmd[s].Type))
       /\ \A s \in Starts :
            (wpc[s] = "cleanup" /\ wpc'[s] # "cleanup" /\ state.MainID = 0)
               => UNCHANGED remote /\ wpc'[s] = "done" /\ hist'[s].hardStops = 0
       /\ (state.MainID = 0 /\ ops' # ops /\ UNCHANGED <<spc, tpc, cpc>>)
               => UNCHANGED <<remote, wpc>>]_vars

\* A session without mainID has answered a step command with the
\* no-active-session error and a stop command with success, and has been cleaned
\* up, and no command request, ping or hard-stop was ever sent.
C36_Witness ==
    \E s \in Starts, c, d \in Calls :
        /\ hist[s].spawned = 1 /\ hist[s].issued = 0 /\ wpc[s] = "done"
        /\ GotReply(c) /\ cres[c].Type = AMDPCmdStep
        /\ ~cres[c].Success /\ cres[c].Error = "no active session"
        /\ GotStopSuccess(d)
        /\ \A k \in SessionKinds : remote[k] = 0


\* ------------------------------------------------------------------ C37

\* Start invocation s is between its marking of the manager and its return:
\* the manager is running and no worker exists.
InStartWindow(s) == spc[s] \in {"ctx", "fetch", "init"}

\* Start invocation s has failed after it had marked the manager.
StartFailed(s) ==
    spc[s] = "done" /\ sres[s] \in {"AuthFailure", "RemoteOperationFailure"}

\* C37: a SendCommand that begins while a Start is between its marking and its
\* return is accepted and captures the channel of that Start; a command is taken
\* from the channel of a Start only when that Start has returned with success,
\* after the token fetch and the session creation, and has spawned its worker;
\* and the commands sent to the channel of a Start that has failed are never
\* taken and never answered, so that their callers can end with the
\* response-timeout error only.
C37_CommandsOfTheStartWindow ==
    /\ [][\A s \in Starts, c \in Calls :
            (InStartWindow(s) /\ cpc[c] = "idle" /\ cpc'[c] # "idle")
               => /\ hist[s].spawned = 0 /\ wpc[s] = "none"
                  /\ cpc'[c] = "enq"
                  /\ cchan'[c] = s]_vars
    /\ [](\A s \in Starts :
            (hist[s].disp # <<>> \/ wpc[s] # "none")
               => /\ spc[s] = "done" /\ sres[s] = "ok"
                  /\ hist[s].startCalls = 1
                  /\ hist[s].spawned = 1
                  /\ remote["fetch"] >= 1 /\ remote["start"] >= 1)
    /\ [](\A s \in Starts :
            StartFailed(s)
               => /\ hist[s].disp = <<>>
                  /\ hist[s].spawned = 0
                  /\ ~chanClosed[s]
                  /\ \A k \in 1..Len(hist[s].enq) :
                        LET c == hist[s].enq[k]
                        IN  /\ slot[c] = <<>>
                            /\ cpc[c] \in {"wait", "done"}
                            /\ cpc[c] = "done"
                                  => cres[c] = ErrResult("ResponseTimeout")
                            /\ cpc[c] = "wait" => ENABLED SendResponseTimeout(c))

\* A command was sent while Start was fetching the token; the Start has then
\* failed, the command is still in the channel and its caller has ended with the
\* response-timeout error.
C37_Witness ==
    \E s \in Starts, c \in Calls :
        /\ StartFailed(s)
        /\ hist[s].enq = <<c>>
        /\ Len(chanBuf[s]) = 1 /\ chanBuf[s][1].Response = c
        /\ GaveUp(c)


\* ------------------------------------------------------------------ C38

\* C38: when the worker of a session whose context has been cancelled, by
\* Stop() or by the caller of Start, runs its cleanup with a mainID that is not
\* empty, the hard-stop request is sent to the remote system.
C38_HardStopSentAfterCancel ==
    [][\A s \in Starts :
         (CleanupBegins(s) /\ ctxDone[s] /\ state.MainID # 0)
            => /\ hist'[s].hardStops = hist[s].hardStops + 1
               /\ NewRequests("hardstop") = 1
               /\ "hardstop" \in {hist'[s].out[k] : k \in 1..Len(hist'[s].out)}]_vars


\* ------------------------------------------------------------------ C39

\* The command types handleCommand has no case for.
UnknownTypes == CmdTypes \ RemoteTypes

DispatchReturns(s) ==
    /\ wpc[s] \in {"dispatch", "inflight"}
    /\ wpc'[s] \notin {"dispatch", "inflight"}
    /\ hist'[s].faults = hist[s].faults

\* C40: the non-blocking send of the response never takes its default branch:
\* the reply slot of a command the worker holds is empty, and no one but that
\* worker writes to it, so that whenever a dispatch returns the slot of its
\* command has room and the response is put there, also when the caller of the
\* command has given up.
C40_ReplyNeverDropped ==
    /\ [](\A s \in Starts :
            wcmd[s] # NoCmd
               => /\ slot[ReplySlot(wcmd[s])] = <<>>
                  /\ \A r \in Starts \ {s} :
                        wcmd[r] # NoCmd => ReplySlot(wcmd[r]) # ReplySlot(wcmd[s]))
    /\ [][\A s \in Starts :
            DispatchReturns(s)
               => LET c == ReplySlot(wcmd[s])
                  IN  /\ Len(slot[c]) < RespCap
                      /\ Len(slot'[c]) = 1
                      /\ slot'[c][1].Cmd = wcmd[s].Response
                      /\ slot'[c][1].Type = wcmd[s].Type
                      /\ \A d \in DOMAIN slot \ {c} : slot'[d] = slot[d]]_vars
    /\ [][\A c \in DOMAIN slot :
            Len(slot'[c]) > Len(slot[c])
               => \E s \in Starts : DispatchReturns(s) /\ ReplySlot(wcmd[s]) = c]_vars

\* The caller of a command has given up with the response timeout, and the
\* response of the command, dispatched afterwards, is in its slot.
C40_Witness ==
    \E c \in Calls, s \in Starts :
        /\ GaveUp(c)
        /\ Len(slot[c]) = 1 /\ slot[c][1].Cmd = c
        /\ hist[s].disp = <<c>>
====
